---- MODULE Spec2Model ----
(***************************************************************************)
(* ContentAnalysisTool (seo_agency/tools/content_analysis_tool.py): the    *)
(* content scorer.  A text is a sequence of one-character strings; the     *)
(* Python string and regular-expression operations the tool uses are       *)
(* operators on such sequences, and _run is a state machine over the       *)
(* stages of one invocation.                                               *)
(***************************************************************************)
EXTENDS Integers, Sequences, FiniteSets, TLC

VARIABLES
    hashseed,             \* run -> the interpreter's string-hash seed of that run
    proc,                 \* invocation -> the run (process) it executes in
    tool_input,           \* invocation -> the argument of _run
    pc,                   \* invocation -> position in _run
    input_dict,           \* invocation -> content, target_keywords, min_word_count
    readability,          \* invocation -> result of _analyze_readability
    heading_analysis,     \* invocation -> result of _analyze_headings
    keyword_analysis,     \* invocation -> result of _check_keyword_usage
    completeness,         \* invocation -> result of _analyze_content_completeness
    score_components,     \* invocation -> the four component scores
    total_score,          \* invocation -> their sum
    all_recommendations,  \* invocation -> the concatenated recommendations
    ret                   \* invocation -> what _run returned

vars == <<hashseed, proc, tool_input, pc, input_dict, readability, heading_analysis,
          keyword_analysis, completeness, score_components, total_score,
          all_recommendations, ret>>

----------------------------------------------------------------------------
(* Characters: str.lower, str.split / str.strip / \s whitespace, \w.       *)

UpperCase == <<"A","B","C","D","E","F","G","H","I","J","K","L","M",
               "N","O","P","Q","R","S","T","U","V","W","X","Y","Z">>

LowerCase == <<"a","b","c","d","e","f","g","h","i","j","k","l","m",
               "n","o","p","q","r","s","t","u","v","w","x","y","z">>

UpperSet == {UpperCase[i] : i \in 1..26}

WordChars == UpperSet \cup {LowerCase[i] : i \in 1..26}
             \cup {"0","1","2","3","4","5","6","7","8","9","_"}

Whitespace == {" ", "\t", "\n", "\r", "\f"}

IsSpace(c) == c \in Whitespace

IsWordChar(c) == c \in WordChars

LowerChar(c) ==
    IF c \in UpperSet THEN LowerCase[CHOOSE i \in 1..26 : UpperCase[i] = c] ELSE c

lower(s) == [i \in 1..Len(s) |-> LowerChar(s[i])]

Indices(s) == [i \in 1..Len(s) |-> i]

Min(a, b) == IF a < b THEN a ELSE b

Max(a, b) == IF a > b THEN a ELSE b

----------------------------------------------------------------------------
(* str.split(): the maximal runs of non-whitespace characters.             *)

split(s) ==
    LET n  == Len(s)
        ws == SelectSeq(Indices(s),
                        LAMBDA i : ~IsSpace(s[i]) /\ (i = 1 \/ IsSpace(s[i-1])))
        we == SelectSeq(Indices(s),
                        LAMBDA i : ~IsSpace(s[i]) /\ (i = n \/ IsSpace(s[i+1])))
    IN  [k \in 1..Len(ws) |-> SubSeq(s, ws[k], we[k])]

(* str.strip(): without its leading and trailing whitespace.               *)
strip(s) ==
    LET n == Len(s)
    IN  IF \A i \in 1..n : IsSpace(s[i]) THEN <<>>
        ELSE SubSeq(s,
                 CHOOSE i \in 1..n :
                     ~IsSpace(s[i]) /\ \A j \in 1..(i - 1) : IsSpace(s[j]),
                 CHOOSE i \in 1..n :
                     ~IsSpace(s[i]) /\ \A j \in (i + 1)..n : IsSpace(s[j]))

(* sep.join(parts), by halves.                                             *)
RECURSIVE JoinRange(_, _, _, _)
JoinRange(parts, sep, lo, hi) ==
    IF lo > hi THEN <<>>
    ELSE IF lo = hi THEN parts[lo]
    ELSE LET mid == (lo + hi) \div 2
         IN  JoinRange(parts, sep, lo, mid) \o sep \o JoinRange(parts, sep, mid + 1, hi)

join(sep, parts) == JoinRange(parts, sep, 1, Len(parts))

(* `sub in s`.                                                             *)
Contains(s, sub) ==
    \E i \in 1..(Len(s) - Len(sub) + 1) : SubSeq(s, i, i + Len(sub) - 1) = sub

(* The match starts a left-to-right scan takes: `cands` holds the start of  *)
(* every possible match and ends[p] the last position of the match at p;   *)
(* the scan takes the leftmost candidate and resumes after its end.  When  *)
(* no two candidates overlap the scan takes them all.                      *)
RECURSIVE ScanFrom(_, _, _)
ScanFrom(cands, ends, from) ==
    LET rest == {p \in cands : p >= from}
    IN  IF rest = {} THEN <<>>
        ELSE LET p == CHOOSE q \in rest : \A r \in rest : q <= r
             IN  <<p>> \o ScanFrom(cands, ends, ends[p] + 1)

Scan(cands, ends, last) ==
    IF \A p \in cands : \A q \in (p + 1)..ends[p] : q \notin cands
    THEN SelectSeq([i \in 1..last |-> i], LAMBDA i : i \in cands)
    ELSE ScanFrom(cands, ends, 1)

Occurrences(s, sub) ==
    {i \in 1..(Len(s) - Len(sub) + 1) : SubSeq(s, i, i + Len(sub) - 1) = sub}

(* s.count(sub): non-overlapping occurrences; len(s) + 1 for the empty sub. *)
count(s, sub) ==
    IF Len(sub) = 0 THEN Len(s) + 1
    ELSE LET occ == Occurrences(s, sub)
         IN  Len(Scan(occ, [p \in occ |-> p + Len(sub) - 1], Len(s)))

(* s.split(sep) for a non-empty sep.                                       *)
split_on(s, sep) ==
    LET occ   == Occurrences(s, sep)
        taken == Scan(occ, [p \in occ |-> p + Len(sep) - 1], Len(s))
        m     == Len(taken)
    IN  [k \in 1..(m + 1) |->
            SubSeq(s, IF k = 1 THEN 1 ELSE taken[k-1] + Len(sep),
                      IF k = m + 1 THEN Len(s) ELSE taken[k] - 1)]

(* [p.strip() for p in parts if p.strip()]                                 *)
StripNonEmpty(parts) ==
    LET stripped == [k \in 1..Len(parts) |-> strip(parts[k])]
    IN  SelectSeq(stripped, LAMBDA p : Len(p) > 0)

----------------------------------------------------------------------------
(* Regular expressions of the tool.                                        *)

(* \b between positions i and i+1 of s (0 <= i <= Len(s)).                 *)
WordBoundary(s, i) ==
    LET before == i >= 1 /\ IsWordChar(s[i])
        after  == i < Len(s) /\ IsWordChar(s[i+1])
    IN  before # after

(* len(re.findall(r'\b' + re.escape(word) + r'\b', s))                     *)
findall_word(s, word) ==
    IF Len(word) = 0
    THEN Cardinality({i \in 0..Len(s) : WordBoundary(s, i)})
    ELSE LET occ == {p \in Occurrences(s, word) :
                        WordBoundary(s, p - 1) /\ WordBoundary(s, p + Len(word) - 1)}
         IN  Len(Scan(occ, [p \in occ |-> p + Len(word) - 1], Len(s)))

(* re.split(r'[.!?]+', s): the text between the runs of terminators (the   *)
(* empty pieces at a leading or trailing run included).                    *)
IsTerminator(c) == c \in {".", "!", "?"}

split_sentences(s) ==
    LET n  == Len(s)
        ss == SelectSeq(Indices(s),
                  LAMBDA i : ~IsTerminator(s[i]) /\ (i = 1 \/ IsTerminator(s[i-1])))
        se == SelectSeq(Indices(s),
                  LAMBDA i : ~IsTerminator(s[i]) /\ (i = n \/ IsTerminator(s[i+1])))
        body == [k \in 1..Len(ss) |-> SubSeq(s, ss[k], se[k])]
        lead == IF n > 0 /\ IsTerminator(s[1]) THEN <<(<<>>)>> ELSE <<>>
        trail == IF n > 0 /\ IsTerminator(s[n]) THEN <<(<<>>)>> ELSE <<>>
    IN  IF n = 0 THEN <<(<<>>)>> ELSE lead \o body \o trail

(* The last position of the line that holds position i.                    *)
LineEnd(s, i) ==
    CHOOSE m \in i..Len(s) :
        /\ (m = Len(s) \/ s[m+1] = "\n")
        /\ \A k \in i..m : k = i \/ s[k] # "\n"

(* The number of '#' from position p on.                                   *)
HashRun(s, p) ==
    LET stop == CHOOSE j \in p..(Len(s) + 1) :
                    /\ (j = Len(s) + 1 \/ s[j] # "#")
                    /\ \A k \in p..(j - 1) : s[k] = "#"
    IN  stop - p

(* The last position of the whitespace run that starts at q.               *)
SpaceRunEnd(s, q) ==
    CHOOSE r \in q..Len(s) :
        /\ (r = Len(s) \/ ~IsSpace(s[r+1]))
        /\ \A k \in q..r : IsSpace(s[k])

(* A match of ^#{lo,hi}\s+(.+)$ (re.MULTILINE) that starts at p: the first *)
(* and last position of group 1, <<0, 0>> when there is no match.  \s+     *)
(* takes as much whitespace (line breaks included) as leaves .+ a          *)
(* character that is not a line break; .+ then runs to the end of its line.*)
HeadingMatch(s, p, lo, hi) ==
    LET n == Len(s)
        h == HashRun(s, p)
        q == p + h
    IN  IF ~(p = 1 \/ s[p-1] = "\n") \/ h < lo \/ h > hi \/ q > n
        THEN <<0, 0>>
        ELSE IF ~IsSpace(s[q]) THEN <<0, 0>>
        ELSE LET r == SpaceRunEnd(s, q)
                 J == {j \in q..Min(r, n - 1) : s[j+1] # "\n"}
             IN  IF J = {} THEN <<0, 0>>
                 ELSE LET j == CHOOSE x \in J : \A y \in J : x >= y
                      IN  <<j + 1, LineEnd(s, j + 1)>>

(* re.findall(r'^#{lo,hi}\s+(.+)$', s, re.MULTILINE): the texts of group 1. *)
findall_headings(s, lo, hi) ==
    LET cands == {p \in 1..Len(s) : s[p] = "#" /\ HeadingMatch(s, p, lo, hi)[1] # 0}
        ends  == [p \in cands |-> HeadingMatch(s, p, lo, hi)[2]]
        taken == Scan(cands, ends, Len(s))
    IN  [k \in 1..Len(taken) |->
            SubSeq(s, HeadingMatch(s, taken[k], lo, hi)[1], ends[taken[k]])]

----------------------------------------------------------------------------
(* Thresholds and points of the tool.                                      *)

DifficultAvg == 25

ModerateAvg_Higher == DifficultAvg - 4

ModerateAvg == 20

LongParagraphWords == 100

LongParagraphTenths == 3

H2ContentLength == 300

H3ContentLength == 1000

MaxH2 == 7

IntroWords == 100

OverusedDensity == 3

OptimalMinTenths == 5

OptimalMaxTenths_Three == OptimalMinTenths * 6

OptimalMaxTenths == 25

ParagraphWords == 30

BulletWordCount_Inclusive == LongParagraphWords * 5 - 1

BulletWordCount == 500

DefaultMinWordCount == 300

ReadabilityGood == 25

ReadabilityModerate == 15

ReadabilityOther == 5

H1Points == 10

H2Points == 10

H3Points == 5

KeywordPoints == 25

LengthPoints == 10

IntroPoints == 5

ConclusionPoints == 5

BulletPoints == 3

CtaPoints == 2

TopRecommendations == 10

----------------------------------------------------------------------------
(* Recommendation strings.  A fixed message is its text; a formatted one   *)
(* is its template with the values formatted into it, so two are the same  *)
(* string exactly when template and values agree.                          *)

Rec(msg) == [msg |-> msg, kw |-> <<>>, a |-> 0, b |-> 0]

KwRec(msg, keyword) == [msg |-> msg, kw |-> keyword, a |-> 0, b |-> 0]

NumRec(msg, a, b) == [msg |-> msg, kw |-> <<>>, a |-> a, b |-> b]

(* The paragraphs of both the readability and the completeness check.      *)
Paragraphs(content) == StripNonEmpty(split_on(content, <<"\n", "\n">>))

----------------------------------------------------------------------------
(* _analyze_readability (lines 60-124).  average_words_per_sentence is     *)
(* kept as the pair words, sentences; the dict holds it rounded to one     *)
(* decimal.                                                                *)

_analyze_readability(content) ==
    LET sentences       == StripNonEmpty(split_sentences(content))
        total_words     == Len(split(content))
        total_sentences == Len(sentences)
        paragraphs      == Paragraphs(content)
        total_paragraphs == Len(paragraphs)
        long_paragraphs ==
            Cardinality({k \in 1..total_paragraphs :
                            Len(split(paragraphs[k])) > LongParagraphWords})
        long_rec ==
            IF long_paragraphs > 0 /\ total_paragraphs > 0
               /\ 10 * long_paragraphs > LongParagraphTenths * total_paragraphs
            THEN <<Rec("Consider breaking long paragraphs into smaller chunks.")>>
            ELSE <<>>
    IN  IF total_sentences = 0 \/ total_words = 0
        THEN [score |-> "Invalid",
              average_words_per_sentence |-> <<0, 1>>,
              assessment |-> "Unable to analyze empty content.",
              recommendations |-> <<Rec("Add meaningful content to analyze.")>>]
        ELSE [score |->
                 IF total_words > DifficultAvg * total_sentences THEN "Difficult"
                 ELSE IF total_words > ModerateAvg * total_sentences THEN "Moderate"
                 ELSE "Good",
              average_words_per_sentence |-> <<total_words, total_sentences>>,
              sentences |-> total_sentences,
              paragraphs |-> total_paragraphs,
              assessment |->
                 IF total_words > DifficultAvg * total_sentences
                 THEN "Content may be difficult to read due to long sentences."
                 ELSE IF total_words > ModerateAvg * total_sentences
                 THEN "Content has reasonable readability but could be improved."
                 ELSE "Content has good readability with appropriate sentence length.",
              recommendations |->
                 (IF total_words > DifficultAvg * total_sentences
                  THEN <<Rec("Consider breaking longer sentences into shorter ones."),
                         Rec("Aim for an average of 15-20 words per sentence.")>>
                  ELSE IF total_words > ModerateAvg * total_sentences
                  THEN <<Rec("Some sentences could be shortened for better readability.")>>
                  ELSE <<Rec("Maintain this level of clarity throughout all content.")>>)
                 \o long_rec]

----------------------------------------------------------------------------
(* _analyze_headings (lines 126-195).                                      *)

HeadingRecommendations_SevenConsolidates(h1_count, h2_count, h3_count, h4_count, length) ==
    LET fired ==
          (IF h1_count = 0
           THEN <<Rec("Add an H1 heading (main title) to your content.")>>
           ELSE IF h1_count > 1
           THEN <<Rec("Use only one H1 heading per page for proper SEO.")>>
           ELSE <<>>)
          \o
          (IF h2_count = 0 /\ length > H2ContentLength
           THEN <<Rec("Break content into sections using H2 headings.")>>
           ELSE <<>>)
          \o
          (IF h2_count > 0 /\ h3_count = 0 /\ length > H3ContentLength
           THEN <<Rec("Consider using H3 headings for subsections within major sections.")>>
           ELSE <<>>)
          \o
          (IF h2_count >= MaxH2
           THEN <<Rec("Consider consolidating some sections - too many H2 headings can dilute focus.")>>
           ELSE <<>>)
          \o
          (IF h3_count > 0 /\ h2_count = 0
           THEN <<Rec("Fix heading hierarchy: H3 headings should be used after H2 headings, not directly after H1.")>>
           ELSE <<>>)
          \o
          (IF h4_count > 0 /\ h3_count = 0
           THEN <<Rec("Fix heading hierarchy: H4 headings should be used after H3 headings.")>>
           ELSE <<>>)
    IN  IF fired = <<>>
        THEN <<Rec("Maintain consistent heading hierarchy for future content.")>>
        ELSE fired

HeadingRecommendations_SecondH1Allowed(h1_count, h2_count, h3_count, h4_count, length) ==
    LET fired ==
          (IF h1_count = 0
           THEN <<Rec("Add an H1 heading (main title) to your content.")>>
           ELSE <<>>)
          \o
          (IF h2_count = 0 /\ length > H2ContentLength
           THEN <<Rec("Break content into sections using H2 headings.")>>
           ELSE <<>>)
          \o
          (IF h2_count > 0 /\ h3_count = 0 /\ length > H3ContentLength
           THEN <<Rec("Consider using H3 headings for subsections within major sections.")>>
           ELSE <<>>)
          \o
          (IF h2_count > MaxH2
           THEN <<Rec("Consider consolidating some sections - too many H2 headings can dilute focus.")>>
           ELSE <<>>)
          \o
          (IF h3_count > 0 /\ h2_count = 0
           THEN <<Rec("Fix heading hierarchy: H3 headings should be used after H2 headings, not directly after H1.")>>
           ELSE <<>>)
          \o
          (IF h4_count > 0 /\ h3_count = 0
           THEN <<Rec("Fix heading hierarchy: H4 headings should be used after H3 headings.")>>
           ELSE <<>>)
    IN  IF fired = <<>>
        THEN <<Rec("Maintain consistent heading hierarchy for future content.")>>
        ELSE fired

HeadingRecommendations_NoAffirmative(h1_count, h2_count, h3_count, h4_count, length) ==
    (IF h1_count = 0
     THEN <<Rec("Add an H1 heading (main title) to your content.")>>
     ELSE IF h1_count > 1
     THEN <<Rec("Use only one H1 heading per page for proper SEO.")>>
     ELSE <<>>)
    \o
    (IF h2_count = 0 /\ length > H2ContentLength
     THEN <<Rec("Break content into sections using H2 headings.")>>
     ELSE <<>>)
    \o
    (IF h2_count > 0 /\ h3_count = 0 /\ length > H3ContentLength
     THEN <<Rec("Consider using H3 headings for subsections within major sections.")>>
     ELSE <<>>)
    \o
    (IF h2_count > MaxH2
     THEN <<Rec("Consider consolidating some sections - too many H2 headings can dilute focus.")>>
     ELSE <<>>)
    \o
    (IF h3_count > 0 /\ h2_count = 0
     THEN <<Rec("Fix heading hierarchy: H3 headings should be used after H2 headings, not directly after H1.")>>
     ELSE <<>>)
    \o
    (IF h4_count > 0 /\ h3_count = 0
     THEN <<Rec("Fix heading hierarchy: H4 headings should be used after H3 headings.")>>
     ELSE <<>>)

HeadingRecommendations_FirstRuleOnly(h1_count, h2_count, h3_count, h4_count, length) ==
    IF h1_count = 0
    THEN <<Rec("Add an H1 heading (main title) to your content.")>>
    ELSE IF h1_count > 1
    THEN <<Rec("Use only one H1 heading per page for proper SEO.")>>
    ELSE IF h2_count = 0 /\ length > H2ContentLength
    THEN <<Rec("Break content into sections using H2 headings.")>>
    ELSE IF h2_count > 0 /\ h3_count = 0 /\ length > H3ContentLength
    THEN <<Rec("Consider using H3 headings for subsections within major sections.")>>
    ELSE IF h2_count > MaxH2
    THEN <<Rec("Consider consolidating some sections - too many H2 headings can dilute focus.")>>
    ELSE IF h3_count > 0 /\ h2_count = 0
    THEN <<Rec("Fix heading hierarchy: H3 headings should be used after H2 headings, not directly after H1.")>>
    ELSE IF h4_count > 0 /\ h3_count = 0
    THEN <<Rec("Fix heading hierarchy: H4 headings should be used after H3 headings.")>>
    ELSE <<Rec("Maintain consistent heading hierarchy for future content.")>>

HeadingRecommendations(h1_count, h2_count, h3_count, h4_count, length) ==
    LET fired ==
          (IF h1_count = 0
           THEN <<Rec("Add an H1 heading (main title) to your content.")>>
           ELSE IF h1_count > 1
           THEN <<Rec("Use only one H1 heading per page for proper SEO.")>>
           ELSE <<>>)
          \o
          (IF h2_count = 0 /\ length > H2ContentLength
           THEN <<Rec("Break content into sections using H2 headings.")>>
           ELSE <<>>)
          \o
          (IF h2_count > 0 /\ h3_count = 0 /\ length > H3ContentLength
           THEN <<Rec("Consider using H3 headings for subsections within major sections.")>>
           ELSE <<>>)
          \o
          (IF h2_count > MaxH2
           THEN <<Rec("Consider consolidating some sections - too many H2 headings can dilute focus.")>>
           ELSE <<>>)
          \o
          (IF h3_count > 0 /\ h2_count = 0
           THEN <<Rec("Fix heading hierarchy: H3 headings should be used after H2 headings, not directly after H1.")>>
           ELSE <<>>)
          \o
          (IF h4_count > 0 /\ h3_count = 0
           THEN <<Rec("Fix heading hierarchy: H4 headings should be used after H3 headings.")>>
           ELSE <<>>)
    IN  IF fired = <<>>
        THEN <<Rec("Maintain consistent heading hierarchy for future content.")>>
        ELSE fired

_analyze_headings(content) ==
    LET h1_count == Len(findall_headings(content, 1, 1))
        h2_count == Len(findall_headings(content, 2, 2))
        h3_count == Len(findall_headings(content, 3, 3))
        h4_count == Len(findall_headings(content, 4, 4))
    IN  [h1_count |-> h1_count,
         h2_count |-> h2_count,
         h3_count |-> h3_count,
         h4_count |-> h4_count,
         recommendations |->
             HeadingRecommendations(h1_count, h2_count, h3_count, h4_count,
                                    Len(content))]

----------------------------------------------------------------------------
(* _calculate_keyword_density (lines 40-58): the percentage as the         *)
(* fraction num / den.                                                     *)

_calculate_keyword_density_substring(content, keyword) ==
    LET total_words == Len(split(content))
    IN  IF total_words = 0 THEN [num |-> 0, den |-> 1]
        ELSE [num |-> count(lower(content), lower(keyword)) * 100, den |-> total_words]

_calculate_keyword_density(content, keyword) ==
    LET total_words == Len(split(content))
    IN  IF total_words = 0 THEN [num |-> 0, den |-> 1]
        ELSE [num |-> findall_word(lower(content), lower(keyword)) * 100,
              den |-> total_words]

(* content_lower.count(keyword_lower) (line 230).                          *)
KeywordCount(content, keyword) == count(lower(content), lower(keyword))

(* The label of one keyword (lines 245-257).                               *)
KeywordAssessment(cnt, density) ==
    IF cnt = 0 THEN "Missing"
    ELSE IF cnt = 1 THEN "Underused"
    ELSE IF density.num > OverusedDensity * density.den
    THEN "Overused (potential keyword stuffing)"
    ELSE IF /\ 10 * density.num >= OptimalMinTenths * density.den
            /\ 10 * density.num <= OptimalMaxTenths * density.den
    THEN "Optimal"
    ELSE "Present"

(* One pass of the loop over target_keywords (lines 227-275).              *)
KeywordResult(content, keyword, headings_text, intro) ==
    LET keyword_lower == lower(keyword)
        cnt         == KeywordCount(content, keyword)
        density     == _calculate_keyword_density(content, keyword)
        in_headings == Contains(headings_text, keyword_lower)
        in_intro    == Contains(intro, keyword_lower)
        assessment  == KeywordAssessment(cnt, density)
    IN  [keyword |-> keyword,
         count |-> cnt,
         density |-> density,
         in_headings |-> in_headings,
         in_intro |-> in_intro,
         in_url |-> FALSE,
         assessment |-> assessment,
         recommendations |->
            (IF assessment = "Missing"
             THEN <<KwRec("Add the keyword '{keyword}' to your content.", keyword)>>
             ELSE IF assessment = "Underused"
             THEN <<KwRec("Use the keyword '{keyword}' more frequently throughout the content.", keyword)>>
             ELSE IF assessment = "Overused (potential keyword stuffing)"
             THEN <<KwRec("Reduce usage of '{keyword}' to avoid keyword stuffing.", keyword)>>
             ELSE <<>>)
            \o (IF ~in_headings /\ cnt > 0
                THEN <<KwRec("Include '{keyword}' in at least one heading.", keyword)>>
                ELSE <<>>)
            \o (IF ~in_intro /\ cnt > 0
                THEN <<KwRec("Include '{keyword}' in the introduction section.", keyword)>>
                ELSE <<>>)]

(* The entries of a dict filled by assigning the keys of `keys` in order:  *)
(* one per distinct key, at the place of its first assignment.             *)
DictKeys(keys) ==
    LET first == SelectSeq(Indices(keys),
                           LAMBDA i : \A j \in 1..(i - 1) : keys[j] # keys[i])
    IN  [k \in 1..Len(first) |-> keys[first[k]]]

(* _check_keyword_usage (lines 197-295); target_keywords is a sequence of  *)
(* strings here.                                                           *)
_check_keyword_usage(content, target_keywords) ==
    LET headings      == findall_headings(content, 1, 4)
        headings_text == lower(join(<<" ">>, headings))
        words         == split(content)
        intro         == lower(join(<<" ">>, SubSeq(words, 1, Min(IntroWords, Len(words)))))
        keys          == DictKeys(target_keywords)
        results       == [k \in 1..Len(keys) |->
                             KeywordResult(content, keys[k], headings_text, intro)]
        of_keyword(kw) == results[CHOOSE k \in 1..Len(keys) : keys[k] = kw]
        optimal_count ==
            Cardinality({k \in 1..Len(keys) : results[k].assessment = "Optimal"})
        missing_count ==
            Cardinality({k \in 1..Len(keys) : results[k].assessment = "Missing"})
    IN  [keywords |-> results,
         overall_assessment |->
            IF missing_count = Len(target_keywords)
            THEN NumRec("No target keywords found in content.", 0, 0)
            ELSE IF optimal_count = Len(target_keywords)
            THEN NumRec("All keywords are used optimally.", 0, 0)
            ELSE NumRec("{optimal_count} of {len(target_keywords)} keywords used optimally.",
                        optimal_count, Len(target_keywords)),
         recommendations |->
            join(<<>>, [i \in 1..Len(target_keywords) |->
                           of_keyword(target_keywords[i]).recommendations])]

----------------------------------------------------------------------------
(* _analyze_content_completeness (lines 297-360).                          *)

(* The character U+2022.                                                   *)
Bullet == "U+2022"

BulletMarkers == {Bullet, "*", "-"}

cta_phrases_NoSubscribe == <<
    <<"l","e","a","r","n"," ","m","o","r","e">>,
    <<"s","i","g","n"," ","u","p">>,
    <<"g","e","t"," ","s","t","a","r","t","e","d">>,
    <<"c","o","n","t","a","c","t"," ","u","s">>,
    <<"c","a","l","l"," ","n","o","w">> >>

cta_phrases == <<
    <<"l","e","a","r","n"," ","m","o","r","e">>,
    <<"s","i","g","n"," ","u","p">>,
    <<"g","e","t"," ","s","t","a","r","t","e","d">>,
    <<"c","o","n","t","a","c","t"," ","u","s">>,
    <<"c","a","l","l"," ","n","o","w">>,
    <<"s","u","b","s","c","r","i","b","e">> >>

_analyze_content_completeness(content, min_word_count) ==
    LET word_count == Len(split(content))
        has_bullet_points == \E i \in 1..Len(content) : content[i] \in BulletMarkers
        paragraphs == Paragraphs(content)
        has_intro ==
            Len(paragraphs) > 0 /\ Len(split(paragraphs[1])) >= ParagraphWords
        has_conclusion ==
            Len(paragraphs) > 0
            /\ Len(split(paragraphs[Len(paragraphs)])) >= ParagraphWords
        has_cta ==
            \E k \in 1..Len(cta_phrases) : Contains(lower(content), cta_phrases[k])
        recommendations ==
            (IF word_count < min_word_count
             THEN <<NumRec("Increase content length to at least {min_word_count} words (currently {word_count}).",
                           min_word_count, word_count)>>
             ELSE <<>>)
            \o (IF ~has_intro
                THEN <<Rec("Add a proper introduction section (at least 30 words).")>>
                ELSE <<>>)
            \o (IF ~has_conclusion
                THEN <<Rec("Add a proper conclusion section (at least 30 words).")>>
                ELSE <<>>)
            \o (IF ~has_bullet_points /\ word_count > BulletWordCount
                THEN <<Rec("Add bullet points or lists to break up long text sections.")>>
                ELSE <<>>)
            \o (IF ~has_cta
                THEN <<Rec("Add a clear call-to-action (CTA) to guide readers on next steps.")>>
                ELSE <<>>)
    IN  [word_count |-> word_count,
         has_intro |-> has_intro,
         has_conclusion |-> has_conclusion,
         has_bullet_points |-> has_bullet_points,
         has_cta |-> has_cta,
         issues |-> Len(recommendations),
         recommendations |-> recommendations]

----------------------------------------------------------------------------
(* Python values, as far as _run tells them apart.                         *)

PyStr(s) == [t |-> "str", v |-> s]

PyInt(n) == [t |-> "int", v |-> n]

PyNone == [t |-> "NoneType", v |-> 0]

PyList(items) == [t |-> "list", v |-> items]

PyDict(d) == [t |-> "dict", v |-> d]

(* bool(x)                                                                 *)
Truthy(x) ==
    CASE x.t = "str" -> Len(x.v) > 0
      [] x.t = "int" -> x.v # 0
      [] x.t = "list" -> Len(x.v) > 0
      [] x.t = "dict" -> DOMAIN x.v # {}
      [] OTHER -> FALSE

(* d.get(key, default)                                                     *)
Get(d, key, default) == IF key \in DOMAIN d THEN d[key] ELSE default

(* What `for keyword in x` yields; a str yields its characters.            *)
Iterable(x) == x.t \in {"list", "str"}

Items(x) ==
    IF x.t = "str" THEN [i \in 1..Len(x.v) |-> PyStr(<<x.v[i]>>)] ELSE x.v

(* A local variable not assigned yet.                                      *)
Unbound == [unbound |-> TRUE]

(* The argument of _run: a text json.loads rejects, or the value it        *)
(* decodes to.                                                             *)
Malformed == [json |-> FALSE, value |-> PyNone]

Json(value) == [json |-> TRUE, value |-> value]

Request(content, keywords, min_word_count) ==
    Json(PyDict([content |-> PyStr(content),
                 target_keywords |-> PyList([i \in 1..Len(keywords) |-> PyStr(keywords[i])]),
                 min_word_count |-> PyInt(min_word_count)]))

----------------------------------------------------------------------------
(* What _run returns: a str, either an error message or the report, the    *)
(* report being the sections appended to `result` (lines 445-484).         *)

Pending == [kind |-> "pending", text |-> "", exc |-> "", sections |-> <<>>]

ErrorString(text) == [kind |-> "error", text |-> text, exc |-> "", sections |-> <<>>]

(* except json.JSONDecodeError (lines 488-489)                             *)
JSONDecodeErrorHandler ==
    [kind |-> "error", text |-> "Error: Invalid JSON input.",
     exc |-> "JSONDecodeError", sections |-> <<>>]

ExceptionHandler_Reraise(exc) ==
    [kind |-> "raised", text |-> "", exc |-> exc, sections |-> <<>>]

(* except Exception as e (lines 490-491)                                   *)
ExceptionHandler(exc) ==
    [kind |-> "error", text |-> "Error executing Content Analysis tool: {str(e)}",
     exc |-> exc, sections |-> <<>>]

NoContent_NoneOnly(content) == content.t = "NoneType"

NoContent_Blank(content) ==
    ~Truthy(content) \/ (content.t = "str" /\ strip(content.v) = <<>>)

(* if not content (line 380), if not target_keywords (line 383)            *)
NoContent(content) == ~Truthy(content)

NoKeywords(target_keywords) == ~Truthy(target_keywords)

----------------------------------------------------------------------------
SetOrder_KeepsDuplicates(strings, seed) ==
    LET n == Len(strings)
    IN  [i \in 1..n |-> strings[((i - 1 + seed) % n) + 1]]

(* list(set(all_recommendations)) (line 479): the distinct strings, in the *)
(* order of the set's hash table.  The hashes of str are salted with the   *)
(* seed the interpreter draws when it starts, so the order is a function   *)
(* of the strings and the run's seed: here the order of first occurrence   *)
(* rotated by the seed.                                                    *)
SetOrder(strings, seed) ==
    LET uniq == DictKeys(strings)
        n    == Len(uniq)
    IN  [i \in 1..n |-> uniq[((i - 1 + seed) % n) + 1]]

----------------------------------------------------------------------------
(* The score (lines 392-435) and the narrative band (lines 448-455).       *)

ReadabilityScore_InvalidZero(score) ==
    IF score = "Good" THEN ReadabilityGood
    ELSE IF score = "Moderate" THEN ReadabilityModerate
    ELSE IF score = "Invalid" THEN 0
    ELSE ReadabilityOther

ReadabilityScore(score) ==
    IF score = "Good" THEN ReadabilityGood
    ELSE IF score = "Moderate" THEN ReadabilityModerate
    ELSE ReadabilityOther

HeadingScore_H3Ten(h) ==
    (IF h.h1_count = 1 THEN H1Points ELSE 0)
    + (IF h.h2_count > 0 THEN H2Points ELSE 0)
    + (IF h.h3_count > 0 THEN H2Points ELSE 0)

HeadingScore(h) ==
    (IF h.h1_count = 1 THEN H1Points ELSE 0)
    + (IF h.h2_count > 0 THEN H2Points ELSE 0)
    + (IF h.h3_count > 0 THEN H3Points ELSE 0)

KeywordScore_FirstOnly(k, total) ==
    IF k.keywords[1].assessment = "Optimal" THEN KeywordPoints ELSE 0

(* int((optimal_count / len(target_keywords)) * 25)                        *)
KeywordScore(k, total) ==
    LET optimal_count ==
            Cardinality({i \in 1..Len(k.keywords) : k.keywords[i].assessment = "Optimal"})
    IN  (optimal_count * KeywordPoints) \div total

CompletenessScore_IntroNeedsLength(m, min_word_count) ==
    (IF m.word_count >= min_word_count THEN LengthPoints ELSE 0)
    + (IF m.has_intro /\ m.word_count >= min_word_count THEN IntroPoints ELSE 0)
    + (IF m.has_conclusion THEN ConclusionPoints ELSE 0)
    + (IF m.has_bullet_points THEN BulletPoints ELSE 0)
    + (IF m.has_cta THEN CtaPoints ELSE 0)

CompletenessScore(m, min_word_count) ==
    (IF m.word_count >= min_word_count THEN LengthPoints ELSE 0)
    + (IF m.has_intro THEN IntroPoints ELSE 0)
    + (IF m.has_conclusion THEN ConclusionPoints ELSE 0)
    + (IF m.has_bullet_points THEN BulletPoints ELSE 0)
    + (IF m.has_cta THEN CtaPoints ELSE 0)

ExcellentScore == 90

GoodScore == 70

ModerateScore == 50

ScoreBand_Exclusive(score) ==
    IF score > ExcellentScore THEN "Excellent!"
    ELSE IF score > GoodScore THEN "Good."
    ELSE IF score > ModerateScore THEN "Moderate."
    ELSE "Needs Work."

ScoreBand(score) ==
    IF score >= ExcellentScore THEN "Excellent!"
    ELSE IF score >= GoodScore THEN "Good."
    ELSE IF score >= ModerateScore THEN "Moderate."
    ELSE "Needs Work."

Report_NoRecommendations(total, r, h, k, m, target_count, min_word_count, unique_recommendations) ==
    <<[name |-> "Content Analysis Results"],
      [name |-> "Overall SEO Score", total_score |-> total, band |-> ScoreBand(total)],
      [name |-> "Content Overview", word_count |-> m.word_count,
       readability |-> r.score, h1_count |-> h.h1_count, target_keywords |-> target_count],
      [name |-> "Keyword Analysis", rows |-> k.keywords,
       overall_assessment |-> k.overall_assessment]>>

(* The sections appended to `result` (lines 445-484).                      *)
Report(total, r, h, k, m, target_count, min_word_count, unique_recommendations) ==
    <<[name |-> "Content Analysis Results"],
      [name |-> "Overall SEO Score", total_score |-> total, band |-> ScoreBand(total)],
      [name |-> "Content Overview",
       word_count |-> m.word_count,
       recommended |-> IF m.word_count < min_word_count THEN <<min_word_count>> ELSE <<>>,
       h1_count |-> h.h1_count, h2_count |-> h.h2_count, h3_count |-> h.h3_count,
       readability |-> r.score,
       average_words_per_sentence |-> r.average_words_per_sentence,
       target_keywords |-> target_count],
      [name |-> "Keyword Analysis",
       rows |-> [i \in 1..Len(k.keywords) |->
                    [keyword |-> k.keywords[i].keyword,
                     count |-> k.keywords[i].count,
                     density |-> k.keywords[i].density,
                     in_headings |-> k.keywords[i].in_headings,
                     in_intro |-> k.keywords[i].in_intro,
                     assessment |-> k.keywords[i].assessment]],
       overall_assessment |-> k.overall_assessment],
      [name |-> "Top Recommendations",
       items |-> SubSeq(unique_recommendations, 1,
                        Min(TopRecommendations, Len(unique_recommendations))),
       more |-> IF Len(unique_recommendations) > TopRecommendations
                THEN <<Len(unique_recommendations) - TopRecommendations>>
                ELSE <<>>]>>

----------------------------------------------------------------------------
(* _run (lines 362-491), one invocation c at a time.                       *)

Return_SharedResult(c, value) ==
    /\ ret' = [d \in DOMAIN ret |-> value]
    /\ pc' = [pc EXCEPT ![c] = "done"]

Return(c, value) ==
    /\ ret' = [ret EXCEPT ![c] = value]
    /\ pc' = [pc EXCEPT ![c] = "done"]

(* Lines 374-378: json.loads and the three input_dict.get.                 *)
Parse(c) ==
    /\ pc[c] = "start"
    /\ IF ~tool_input[c].json
       THEN /\ Return(c, JSONDecodeErrorHandler)
            /\ UNCHANGED input_dict
       ELSE IF tool_input[c].value.t # "dict"
       THEN /\ Return(c, ExceptionHandler("AttributeError"))
            /\ UNCHANGED input_dict
       ELSE /\ input_dict' = [input_dict EXCEPT ![c] =
                 [content |-> Get(tool_input[c].value.v, "content", PyStr(<<>>)),
                  target_keywords |->
                      Get(tool_input[c].value.v, "target_keywords", PyList(<<>>)),
                  min_word_count |->
                      Get(tool_input[c].value.v, "min_word_count",
                          PyInt(DefaultMinWordCount))]]
            /\ pc' = [pc EXCEPT ![c] = "validate"]
            /\ UNCHANGED ret
    /\ UNCHANGED <<hashseed, proc, tool_input, readability, heading_analysis,
                   keyword_analysis, completeness, score_components, total_score,
                   all_recommendations>>

(* Lines 380-384.                                                          *)
Validate(c) ==
    /\ pc[c] = "validate"
    /\ IF NoContent(input_dict[c].content)
       THEN Return(c, ErrorString("Error: No content provided for analysis."))
       ELSE IF NoKeywords(input_dict[c].target_keywords)
       THEN Return(c, ErrorString("Error: No target keywords provided for analysis."))
       ELSE /\ pc' = [pc EXCEPT ![c] = "analyze"]
            /\ UNCHANGED ret
    /\ UNCHANGED <<hashseed, proc, tool_input, input_dict, readability,
                   heading_analysis, keyword_analysis, completeness,
                   score_components, total_score, all_recommendations>>

(* Lines 387-390: the four sub-assessments in turn.  re.split raises       *)
(* TypeError on a content that is no str; the loop over target_keywords    *)
(* raises TypeError on a value that cannot be iterated and AttributeError  *)
(* on an item without .lower(); word_count < min_word_count raises         *)
(* TypeError unless min_word_count is a number.                            *)
Analyze(c) ==
    LET content  == input_dict[c].content
        keywords == input_dict[c].target_keywords
        minimum  == input_dict[c].min_word_count
        raised ==
            IF content.t # "str" THEN <<1, "TypeError">>
            ELSE IF ~Iterable(keywords) THEN <<3, "TypeError">>
            ELSE IF \E i \in 1..Len(Items(keywords)) : Items(keywords)[i].t # "str"
            THEN <<3, "AttributeError">>
            ELSE IF minimum.t # "int" THEN <<4, "TypeError">>
            ELSE <<5, "">>
        strings == [i \in 1..Len(Items(keywords)) |-> Items(keywords)[i].v]
    IN  /\ pc[c] = "analyze"
        /\ readability' =
               IF raised[1] > 1
               THEN [readability EXCEPT ![c] = _analyze_readability(content.v)]
               ELSE readability
        /\ heading_analysis' =
               IF raised[1] > 1
               THEN [heading_analysis EXCEPT ![c] = _analyze_headings(content.v)]
               ELSE heading_analysis
        /\ keyword_analysis' =
               IF raised[1] > 3
               THEN [keyword_analysis EXCEPT ![c] = _check_keyword_usage(content.v, strings)]
               ELSE keyword_analysis
        /\ completeness' =
               IF raised[1] > 4
               THEN [completeness EXCEPT ![c] =
                        _analyze_content_completeness(content.v, minimum.v)]
               ELSE completeness
        /\ IF raised[1] > 4
           THEN /\ pc' = [pc EXCEPT ![c] = "score"]
                /\ UNCHANGED ret
           ELSE Return(c, ExceptionHandler(raised[2]))
        /\ UNCHANGED <<hashseed, proc, tool_input, input_dict, score_components,
                       total_score, all_recommendations>>

(* Lines 392-442.                                                          *)
Score(c) ==
    LET components ==
            <<ReadabilityScore(readability[c].score),
              HeadingScore(heading_analysis[c]),
              KeywordScore(keyword_analysis[c],
                           Len(Items(input_dict[c].target_keywords))),
              CompletenessScore(completeness[c], input_dict[c].min_word_count.v)>>
    IN  /\ pc[c] = "score"
        /\ score_components' = [score_components EXCEPT ![c] = components]
        /\ total_score' = [total_score EXCEPT ![c] =
               components[1] + components[2] + components[3] + components[4]]
        /\ all_recommendations' = [all_recommendations EXCEPT ![c] =
               readability[c].recommendations \o heading_analysis[c].recommendations
               \o keyword_analysis[c].recommendations \o completeness[c].recommendations]
        /\ pc' = [pc EXCEPT ![c] = "format"]
        /\ UNCHANGED <<hashseed, proc, tool_input, input_dict, readability,
                       heading_analysis, keyword_analysis, completeness, ret>>

(* Lines 444-486.                                                          *)
Format(c) ==
    /\ pc[c] = "format"
    /\ Return(c, [kind |-> "report", text |-> "", exc |-> "",
                  sections |->
                      Report(total_score[c], readability[c], heading_analysis[c],
                             keyword_analysis[c], completeness[c],
                             Len(Items(input_dict[c].target_keywords)),
                             input_dict[c].min_word_count.v,
                             SetOrder(all_recommendations[c], hashseed[proc[c]]))])
    /\ UNCHANGED <<hashseed, proc, tool_input, input_dict, readability,
                   heading_analysis, keyword_analysis, completeness,
                   score_components, total_score, all_recommendations>>

Next ==
    \/ \E c \in DOMAIN pc : Parse(c)
    \/ \E c \in DOMAIN pc : Validate(c)
    \/ \E c \in DOMAIN pc : Analyze(c)
    \/ \E c \in DOMAIN pc : Score(c)
    \/ \E c \in DOMAIN pc : Format(c)

----------------------------------------------------------------------------
(* Inputs.                                                                 *)

MaxLen == 4

MaxLines == 3

MaxKeywords == 2

MaxCalls == 2

MaxSeed == 1

RECURSIVE Repeat(_, _)
Repeat(s, n) ==
    IF n = 0 THEN <<>>
    ELSE IF n % 2 = 0 THEN LET half == Repeat(s, n \div 2) IN half \o half
    ELSE s \o Repeat(s, n - 1)

Tuples(S, n) == UNION {[1..k -> S] : k \in 1..n}

(* Every text of at most MaxLen characters over Alphabet.                  *)
Alphabet == {"s", " ", "\n", "#", "."}

CharStrings == Tuples(Alphabet, MaxLen)

(* Texts of at most MaxLines lines.                                        *)
Lines == {
    <<"#"," ","S","E","O">>,
    <<"#","#"," ","b">>,
    <<"#","#","#"," ","S","u","b">>,
    <<"#","#","#","#"," ","d">>,
    <<"s","e","o"," ","s","e","o","s",".">>,
    <<>>,
    <<"#">> }

LineDocs == {join(<<"\n">>, ls) : ls \in Tuples(Lines, MaxLines)}

kw_s == <<"s">>

kw_seo == <<"s","e","o">>

kw_sub == <<"s","u","b">>

(* "SEO-driven seos"                                                       *)
DocSeoDriven == <<"S","E","O","-","d","r","i","v","e","n"," ","s","e","o","s">>

(* 100 words, two of them the keyword.                                     *)
DocHundredWords ==
    <<"s","e","o"," ">> \o Repeat(<<"w", " ">>, 49) \o <<"S","e","o","."," ">>
    \o Repeat(<<"w", " ">>, 48) \o <<"w">>

(* "### Sub"                                                               *)
DocSubOnly == <<"#","#","#"," ","S","u","b">>

(* An H1, then a paragraph of 30 words.                                    *)
DocIntro ==
    <<"#"," ","I","n","t","r","o","\n","\n">> \o Repeat(<<"w", " ">>, 28) \o <<"t","e","s","t"," ","-"," ","s","u","b","s","c","r","i","b","e",".">>

(* A sentence of ten words.                                                *)
TenWords == Repeat(<<"w", " ">>, 9) \o <<"w", ".", " ">>

(* One H1, H2 and H3, 90 words in sentences of ten, the keyword twice, a   *)
(* list marker and a call to action, first and last paragraph of 40 words  *)
(* and more.                                                               *)
DocFull ==
    <<"#"," ","S","e","o","\n">> \o Repeat(TenWords, 4)
    \o <<"\n","\n","#","#"," ","b","\n","#","#","#"," ","c","\n","-"," ","s","e","o"," ","l","e","a","r","n"," ","m","o","r","e",".","\n","\n">>
    \o Repeat(TenWords, 4)

(* Seven and eight H2 headings.                                            *)
DocSevenH2 == Repeat(<<"#","#"," ","b","\n">>, 7)

DocEightH2 == Repeat(<<"#","#"," ","b","\n">>, 8)

(* 300 and 301 characters without a heading.                               *)
Doc300 == Repeat(<<"w"," ">>, 150)

Doc301 == Doc300 \o <<"w">>

(* 1000 and 1001 characters under one H2, without an H3.                   *)
Doc1000 == <<"#","#"," ","b","\n">> \o Repeat(<<"w"," ">>, 497) \o <<"w">>

Doc1001 == Doc1000 \o <<".">>

(* One sentence of 20, 21, 25 and 26 words.                                *)
Doc20Words == Repeat(<<"w"," ">>, 19) \o <<"w",".">>

Doc21Words == Repeat(<<"w"," ">>, 20) \o <<"w",".">>

Doc25Words == Repeat(<<"w"," ">>, 24) \o <<"w",".">>

Doc26Words == Repeat(<<"w"," ">>, 25) \o <<"w",".">>

(* 500 and 501 words without a list marker.                                *)
Doc500Words == Repeat(<<"w"," ">>, 500)

Doc501Words == Repeat(<<"w"," ">>, 501)

(* 39 and 40 words: "seo seos" and then the filler word, so that the       *)
(* keyword is one whole word of the text and two of its substrings.        *)
Doc39Words == <<"s","e","o"," ","s","e","o","s"," ">> \o Repeat(<<"w"," ">>, 37)

Doc40Words == <<"s","e","o"," ","s","e","o","s"," ">> \o Repeat(<<"w"," ">>, 38)

ThresholdDocs ==
    {DocSevenH2, DocEightH2, Doc300, Doc301, Doc1000, Doc1001,
     Doc20Words, Doc21Words, Doc25Words, Doc26Words, Doc500Words, Doc501Words,
     Doc39Words, Doc40Words}

(* An H4 alone, then one paragraph of 102 words in a single sentence with  *)
(* the keyword as its last word.                                           *)
DocManyIssues ==
    <<"#","#","#","#"," ","d","\n","\n">> \o Repeat(<<"w"," ">>, 101) \o <<"s","e","o">>

(* DocFull without its H3.                                                 *)
DocNoH3 ==
    <<"#"," ","S","e","o","\n">> \o Repeat(TenWords, 4)
    \o <<"\n","\n","#","#"," ","b","\n","-"," ","s","e","o"," ","l","e","a","r","n"," ","m","o","r","e",".","\n","\n">>
    \o Repeat(TenWords, 4)

Scenarios ==
    {DocSeoDriven, DocHundredWords, DocSubOnly, DocIntro, DocFull, DocNoH3,
     DocManyIssues}

CharRequests == {Request(c, <<kw_s>>, 1) : c \in CharStrings}

LineRequests == {Request(d, <<kw_seo, kw_sub>>, 3) : d \in LineDocs}

ScenarioRequests ==
    {Request(d, k, m) : d \in Scenarios, k \in Tuples({kw_seo, kw_sub}, MaxKeywords),
                        m \in {1, DefaultMinWordCount}}

(* One text for each call-to-action phrase DocIntro and DocFull lack, in   *)
(* mixed case, and two near misses.                                        *)
CtaDocs == {
    <<"S","i","g","n"," ","U","p">>,
    <<"G","E","T"," ","s","t","a","r","t","e","d","!">>,
    <<"C","o","n","t","a","c","t"," ","u","s">>,
    <<"r","e","c","a","l","l"," ","n","o","w","h","e","r","e">>,
    <<"s","i","g","n","u","p">>,
    <<"l","e","a","r","n","\n","m","o","r","e">> }

CtaRequests == {Request(d, <<kw_seo>>, 1) : d \in CtaDocs}

ThresholdRequests == {Request(d, <<kw_seo>>, 1) : d \in ThresholdDocs}

(* Requests that are no JSON, no object, or whose fields are missing or of *)
(* another type.                                                           *)
OddRequests ==
    {Malformed, Json(PyList(<<>>)), Json(PyInt(5)), Json(PyNone), Json(PyStr(kw_s)),
     Json(PyDict(<<>>)),
     Request(<<>>, <<kw_s>>, 1), Request(kw_s, <<>>, 1), Request(<<>>, <<>>, 1),
     Json(PyDict([content |-> PyStr(kw_s)])),
     Json(PyDict([target_keywords |-> PyList(<<PyStr(kw_s)>>)])),
     Json(PyDict([content |-> PyStr(kw_s), target_keywords |-> PyList(<<PyStr(kw_s)>>)])),
     Json(PyDict([content |-> PyNone, target_keywords |-> PyList(<<PyStr(kw_s)>>)])),
     Json(PyDict([content |-> PyInt(0), target_keywords |-> PyList(<<PyStr(kw_s)>>)])),
     Json(PyDict([content |-> PyInt(5), target_keywords |-> PyList(<<PyStr(kw_s)>>)])),
     Json(PyDict([content |-> PyStr(kw_s), target_keywords |-> PyNone])),
     Json(PyDict([content |-> PyStr(kw_s), target_keywords |-> PyInt(5)])),
     Json(PyDict([content |-> PyStr(kw_s), target_keywords |-> PyStr(kw_seo)])),
     Json(PyDict([content |-> PyStr(kw_s),
                  target_keywords |-> PyList(<<PyStr(kw_s), PyInt(1)>>)])),
     Json(PyDict([content |-> PyStr(kw_s), target_keywords |-> PyList(<<PyStr(kw_s)>>),
                  min_word_count |-> PyNone])),
     Json(PyDict([content |-> PyStr(kw_s), target_keywords |-> PyList(<<PyStr(kw_s)>>),
                  min_word_count |-> PyStr(kw_s)]))}

Requests ==
    CharRequests \cup LineRequests \cup ScenarioRequests \cup ThresholdRequests
    \cup CtaRequests
    \cup OddRequests

(* One invocation in one run of the program.                               *)
Init ==
    /\ hashseed \in [{1} -> 0..MaxSeed]
    /\ proc = [c \in {1} |-> 1]
    /\ tool_input \in [{1} -> Requests]
    /\ pc = [c \in {1} |-> "start"]
    /\ input_dict = [c \in {1} |-> Unbound]
    /\ readability = [c \in {1} |-> Unbound]
    /\ heading_analysis = [c \in {1} |-> Unbound]
    /\ keyword_analysis = [c \in {1} |-> Unbound]
    /\ completeness = [c \in {1} |-> Unbound]
    /\ score_components = [c \in {1} |-> Unbound]
    /\ total_score = [c \in {1} |-> Unbound]
    /\ all_recommendations = [c \in {1} |-> Unbound]
    /\ ret = [c \in {1} |-> Pending]

Spec == Init /\ [][Next]_vars

(* Two invocations with the same argument, in one run of the program or   *)
(* in two.                                                                 *)
PairRequests ==
    {Request(c, <<kw_s>>, 1) : c \in Tuples(Alphabet, MaxLen - 2)} \cup OddRequests

InitTwo ==
    /\ hashseed \in [{1, 2} -> 0..MaxSeed]
    /\ proc \in {<<1, 1>>, <<1, 2>>}
    /\ tool_input \in {<<r, r>> : r \in PairRequests}
    /\ pc = [c \in {1, 2} |-> "start"]
    /\ input_dict = [c \in {1, 2} |-> Unbound]
    /\ readability = [c \in {1, 2} |-> Unbound]
    /\ heading_analysis = [c \in {1, 2} |-> Unbound]
    /\ keyword_analysis = [c \in {1, 2} |-> Unbound]
    /\ completeness = [c \in {1, 2} |-> Unbound]
    /\ score_components = [c \in {1, 2} |-> Unbound]
    /\ total_score = [c \in {1, 2} |-> Unbound]
    /\ all_recommendations = [c \in {1, 2} |-> Unbound]
    /\ ret = [c \in {1, 2} |-> Pending]

SpecTwo == InitTwo /\ [][Next]_vars

(* Invocations on one instance in one run of the program, each with its   *)
(* own argument, their steps interleaved in any order.                     *)
ConcurrentRequests ==
    {Malformed,
     Request(<<>>, <<kw_s>>, 1),
     Json(PyDict([content |-> PyStr(kw_s), target_keywords |-> PyList(<<PyStr(kw_s)>>),
                  min_word_count |-> PyNone])),
     Request(kw_s, <<kw_s>>, 1),
     Request(DocSubOnly, <<kw_seo, kw_sub>>, DefaultMinWordCount)}

InitConcurrent ==
    /\ hashseed \in [{1} -> 0..MaxSeed]
    /\ proc = [c \in 1..MaxCalls |-> 1]
    /\ tool_input \in [1..MaxCalls -> ConcurrentRequests]
    /\ pc = [c \in 1..MaxCalls |-> "start"]
    /\ input_dict = [c \in 1..MaxCalls |-> Unbound]
    /\ readability = [c \in 1..MaxCalls |-> Unbound]
    /\ heading_analysis = [c \in 1..MaxCalls |-> Unbound]
    /\ keyword_analysis = [c \in 1..MaxCalls |-> Unbound]
    /\ completeness = [c \in 1..MaxCalls |-> Unbound]
    /\ score_components = [c \in 1..MaxCalls |-> Unbound]
    /\ total_score = [c \in 1..MaxCalls |-> Unbound]
    /\ all_recommendations = [c \in 1..MaxCalls |-> Unbound]
    /\ ret = [c \in 1..MaxCalls |-> Pending]

SpecConcurrent == InitConcurrent /\ [][Next]_vars

(* Two invocations in one run of the program whose arguments differ in the *)
(* order of target_keywords only.                                          *)
IsPermutation(a, b) ==
    /\ Len(a) = Len(b)
    /\ \A x \in {a[i] : i \in 1..Len(a)} \cup {b[i] : i \in 1..Len(b)} :
           Cardinality({i \in 1..Len(a) : a[i] = x})
               = Cardinality({i \in 1..Len(b) : b[i] = x})

PermutedContents == {DocSubOnly, DocSeoDriven, Doc40Words, DocHundredWords, DocFull}

PermutedKeywords == Tuples({kw_seo, kw_sub}, MaxKeywords)

PermutedPairs ==
    {p \in PermutedKeywords \X PermutedKeywords : IsPermutation(p[1], p[2])}

PermutedRequests ==
    {<<Request(d, p[1], m), Request(d, p[2], m)>> :
        d \in PermutedContents, p \in PermutedPairs, m \in {1, DefaultMinWordCount}}

InitPermuted ==
    /\ hashseed \in [{1} -> 0..MaxSeed]
    /\ proc = <<1, 1>>
    /\ tool_input \in PermutedRequests
    /\ pc = [c \in {1, 2} |-> "start"]
    /\ input_dict = [c \in {1, 2} |-> Unbound]
    /\ readability = [c \in {1, 2} |-> Unbound]
    /\ heading_analysis = [c \in {1, 2} |-> Unbound]
    /\ keyword_analysis = [c \in {1, 2} |-> Unbound]
    /\ completeness = [c \in {1, 2} |-> Unbound]
    /\ score_components = [c \in {1, 2} |-> Unbound]
    /\ total_score = [c \in {1, 2} |-> Unbound]
    /\ all_recommendations = [c \in {1, 2} |-> Unbound]
    /\ ret = [c \in {1, 2} |-> Pending]

SpecPermuted == InitPermuted /\ [][Next]_vars

----------------------------------------------------------------------------
(* The claims.                                                             *)

Calls == DOMAIN pc

Reported(c) == pc[c] = "done" /\ ret[c].kind = "report"

Analyzed(c) == pc[c] \in {"score", "format"} \/ Reported(c)

Section(r, name) ==
    r.sections[CHOOSE i \in 1..Len(r.sections) : r.sections[i].name = name]

ContentOf(c) == input_dict[c].content.v

(* The words of a text, counted by their first characters.                 *)
WordCountOf(s) ==
    Cardinality({i \in 1..Len(s) : ~IsSpace(s[i]) /\ (i = 1 \/ IsSpace(s[i-1]))})

(* The case-insensitive whole-word matches of a keyword: its occurrences   *)
(* with no word character right before or right after.                     *)
WholeWordMatches(s, keyword) ==
    LET n == Len(s)
        m == Len(keyword)
    IN  Cardinality({p \in 1..(n - m + 1) :
            /\ lower(SubSeq(s, p, p + m - 1)) = lower(keyword)
            /\ (p = 1 \/ ~IsWordChar(s[p-1]))
            /\ (p + m > n \/ ~IsWordChar(s[p+m]))})

(* C1: whenever _run produces a report, the total_score it shows is an     *)
(* integer in [0,100] and each of the four components is in [0,25].        *)
C1_ScoreInRange ==
    \A c \in Calls :
        Reported(c) =>
            /\ Section(ret[c], "Overall SEO Score").total_score \in 0..100
            /\ \A i \in 1..4 : score_components[c][i] \in 0..25

C1_Witness ==
    \E c \in Calls :
        /\ Reported(c)
        /\ Section(ret[c], "Overall SEO Score").total_score = 100
        /\ score_components[c] = <<25, 25, 25, 25>>

(* C2: two invocations of _run with identical input, in the same or in     *)
(* different runs of the program, return identical reports, the Top        *)
(* Recommendations and their order included.                               *)
C2_SameInputSameReport ==
    \A c, d \in Calls :
        (pc[c] = "done" /\ pc[d] = "done" /\ tool_input[c] = tool_input[d])
            => ret[c] = ret[d]

(* C3: the occurrence count _check_keyword_usage reports for a keyword is  *)
(* the number of its case-insensitive whole-word matches in the content.   *)
C3_CountIsWholeWord ==
    \A c \in Calls :
        Analyzed(c) =>
            \A i \in 1..Len(keyword_analysis[c].keywords) :
                keyword_analysis[c].keywords[i].count =
                    WholeWordMatches(ContentOf(c), keyword_analysis[c].keywords[i].keyword)

(* C4: with N >= 1 words in the content and K whole-word matches of the    *)
(* keyword, the density is K / N * 100; with no word it is 0.              *)
C4_DensityIsShare ==
    \A c \in Calls :
        Analyzed(c) =>
            \A i \in 1..Len(keyword_analysis[c].keywords) :
                LET row == keyword_analysis[c].keywords[i]
                    N   == WordCountOf(ContentOf(c))
                    K   == WholeWordMatches(ContentOf(c), row.keyword)
                IN  /\ row.density.den > 0
                    /\ IF N = 0 THEN row.density.num = 0
                       ELSE row.density.num * N = K * 100 * row.density.den

C4_Witness ==
    \E c \in Calls :
        /\ Analyzed(c)
        /\ WordCountOf(ContentOf(c)) = 100
        /\ \E i \in 1..Len(keyword_analysis[c].keywords) :
               LET row == keyword_analysis[c].keywords[i]
               IN  /\ WholeWordMatches(ContentOf(c), row.keyword) = 2
                   /\ row.density.num = 2 * row.density.den

(* C5: the label of a keyword follows, first match first, from its         *)
(* whole-word occurrence count K and density K / N * 100: K = 0 Missing,   *)
(* K = 1 Underused, density > 3.0 Overused, 0.5 <= density <= 2.5 Optimal, *)
(* otherwise Present.                                                      *)
LabelOf(K, N) ==
    IF K = 0 THEN "Missing"
    ELSE IF K = 1 THEN "Underused"
    ELSE IF N > 0 /\ K * 100 > 3 * N THEN "Overused (potential keyword stuffing)"
    ELSE IF N > 0 /\ 2 * K * 100 >= N /\ 2 * K * 100 <= 5 * N THEN "Optimal"
    ELSE "Present"

C5_LabelByWholeWordValues ==
    \A c \in Calls :
        Analyzed(c) =>
            \A i \in 1..Len(keyword_analysis[c].keywords) :
                LET row == keyword_analysis[c].keywords[i]
                IN  row.assessment =
                        LabelOf(WholeWordMatches(ContentOf(c), row.keyword),
                                WordCountOf(ContentOf(c)))

(* The request of call c is an object whose content is missing or empty,   *)
(* or whose target keyword list is missing or empty.                       *)
EmptyRequest(c) ==
    /\ tool_input[c].json
    /\ tool_input[c].value.t = "dict"
    /\ LET d == tool_input[c].value.v
       IN  \/ "content" \notin DOMAIN d
           \/ (d.content.t = "str" /\ Len(d.content.v) = 0)
           \/ "target_keywords" \notin DOMAIN d
           \/ (d.target_keywords.t = "list" /\ Len(d.target_keywords.v) = 0)

(* C6: when the content is missing or empty, or the target keyword list is *)
(* missing or empty, _run runs no sub-assessment and computes no score,    *)
(* and returns one of the two explicit error strings without raising.      *)
C6_EmptyRequestIsError ==
    \A c \in Calls :
        EmptyRequest(c) =>
            /\ pc[c] \in {"start", "validate", "done"}
            /\ readability[c] = Unbound
            /\ heading_analysis[c] = Unbound
            /\ keyword_analysis[c] = Unbound
            /\ completeness[c] = Unbound
            /\ score_components[c] = Unbound
            /\ pc[c] = "done" =>
                   /\ ret[c].kind = "error"
                   /\ ret[c].exc = ""
                   /\ ret[c].sections = <<>>
                   /\ ret[c].text \in {"Error: No content provided for analysis.",
                                       "Error: No target keywords provided for analysis."}

C6_Witness ==
    \E c \in Calls :
        /\ EmptyRequest(c)
        /\ pc[c] = "done"
        /\ "content" \in DOMAIN tool_input[c].value.v
        /\ Truthy(tool_input[c].value.v.content)
        /\ ret[c].text = "Error: No target keywords provided for analysis."

(* C7: whatever the input string, not JSON, JSON that is no object, or an  *)
(* object with fields of the wrong type, _run returns a string, an error   *)
(* string or the report, and no exception escapes; an input that is not    *)
(* JSON returns "Error: Invalid JSON input.".                              *)
C7_AlwaysReturnsString ==
    \A c \in Calls :
        pc[c] = "done" =>
            /\ ret[c].kind \in {"error", "report"}
            /\ ~tool_input[c].json =>
                   (ret[c].kind = "error" /\ ret[c].text = "Error: Invalid JSON input.")
            /\ (tool_input[c].json /\ tool_input[c].value.t # "dict") =>
                   ret[c].kind = "error"

C7_Witness ==
    \E c \in Calls :
        /\ pc[c] = "done"
        /\ tool_input[c].json
        /\ tool_input[c].value.t = "dict"
        /\ "min_word_count" \in DOMAIN tool_input[c].value.v
        /\ tool_input[c].value.v.min_word_count = PyNone
        /\ ret[c].kind = "error"
        /\ ret[c].exc = "TypeError"

ReportSections ==
    <<"Content Analysis Results", "Overall SEO Score", "Content Overview",
      "Keyword Analysis", "Top Recommendations">>

(* C8: every invocation of _run ends either in a complete report, with the *)
(* overall score, the Content Overview, the Keyword Analysis table and its *)
(* overall summary, and the Top Recommendations, or in an error string     *)
(* that carries no part of a report.                                       *)
C8_ReportOrError ==
    \A c \in Calls :
        pc[c] = "done" =>
            \/ /\ ret[c].kind = "report"
               /\ ret[c].text = ""
               /\ [i \in 1..Len(ret[c].sections) |-> ret[c].sections[i].name]
                      = ReportSections
               /\ "total_score" \in DOMAIN Section(ret[c], "Overall SEO Score")
               /\ {"rows", "overall_assessment"}
                      \subseteq DOMAIN Section(ret[c], "Keyword Analysis")
               /\ "items" \in DOMAIN Section(ret[c], "Top Recommendations")
            \/ /\ ret[c].kind = "error"
               /\ ret[c].text # ""
               /\ ret[c].sections = <<>>

(* An invocation that fails after the first sub-assessments have run.      *)
C8_Witness ==
    \E c \in Calls :
        /\ pc[c] = "done"
        /\ ret[c].kind = "error"
        /\ readability[c] # Unbound
        /\ heading_analysis[c] # Unbound

(* A text without a sentence or without a word: nothing but whitespace and *)
(* sentence terminators.                                                   *)
Degenerate(s) == \A i \in 1..Len(s) : IsSpace(s[i]) \/ s[i] \in {".", "!", "?"}

WellTyped(c) ==
    /\ tool_input[c].json
    /\ tool_input[c].value.t = "dict"
    /\ LET d == tool_input[c].value.v
       IN  /\ "content" \in DOMAIN d
           /\ d.content.t = "str"
           /\ "target_keywords" \in DOMAIN d
           /\ d.target_keywords.t = "list"
           /\ \A i \in 1..Len(d.target_keywords.v) : d.target_keywords.v[i].t = "str"
           /\ "min_word_count" \in DOMAIN d => d.min_word_count.t = "int"

(* C9: for a non-empty content with no sentence or no word and a non-empty *)
(* keyword list, _run returns a full report and no error: readability is   *)
(* Invalid with the recommendation to add content and the lowest           *)
(* readability points, and the other three sub-assessments are computed.   *)
C9_DegenerateContentReported ==
    \A c \in Calls :
        (/\ pc[c] = "done"
         /\ WellTyped(c)
         /\ Len(tool_input[c].value.v.content.v) > 0
         /\ Len(tool_input[c].value.v.target_keywords.v) > 0
         /\ Degenerate(tool_input[c].value.v.content.v))
        => /\ ret[c].kind = "report"
           /\ Section(ret[c], "Content Overview").readability = "Invalid"
           /\ readability[c].score = "Invalid"
           /\ readability[c].recommendations = <<Rec("Add meaningful content to analyze.")>>
           /\ Rec("Add meaningful content to analyze.")
                  \in {all_recommendations[c][i] : i \in 1..Len(all_recommendations[c])}
           /\ heading_analysis[c] # Unbound
           /\ keyword_analysis[c] # Unbound
           /\ completeness[c] # Unbound
           /\ score_components[c][1] = ReadabilityOther
           /\ Section(ret[c], "Overall SEO Score").total_score
                  = ReadabilityOther + score_components[c][2] + score_components[c][3]
                    + score_components[c][4]
           /\ Section(ret[c], "Overall SEO Score").total_score < 100

(* Whitespace only, and punctuation only.                                  *)
C9_Witness ==
    \E c \in Calls :
        /\ Reported(c)
        /\ ContentOf(c) # <<>>
        /\ \A i \in 1..Len(ContentOf(c)) : IsSpace(ContentOf(c)[i])
        /\ readability[c].score = "Invalid"

C9_WitnessPunctuation ==
    \E c \in Calls :
        /\ Reported(c)
        /\ ContentOf(c) = <<".">>
        /\ readability[c].score = "Invalid"

H3WithoutH2 ==
    Rec("Fix heading hierarchy: H3 headings should be used after H2 headings, not directly after H1.")

H4WithoutH3 ==
    Rec("Fix heading hierarchy: H4 headings should be used after H3 headings.")

(* C10: whenever _analyze_headings counts an H3 and no H2 its              *)
(* recommendations hold the H3-without-H2 violation, and whenever it       *)
(* counts an H4 and no H3 they hold the H4-without-H3 violation, whatever  *)
(* other heading rule fires; the content "### Sub" has h3_count = 1 and    *)
(* h2_count = 0.                                                           *)
C10_HierarchyViolationReported ==
    \A c \in Calls :
        Analyzed(c) =>
            LET h    == heading_analysis[c]
                recs == {h.recommendations[i] : i \in 1..Len(h.recommendations)}
            IN  /\ (h.h3_count > 0 /\ h.h2_count = 0) => H3WithoutH2 \in recs
                /\ (h.h4_count > 0 /\ h.h3_count = 0) => H4WithoutH3 \in recs
                /\ ContentOf(c) = DocSubOnly =>
                       (h.h1_count = 0 /\ h.h2_count = 0 /\ h.h3_count = 1)

C10_Witness ==
    \E c \in Calls :
        /\ Analyzed(c)
        /\ ContentOf(c) = DocSubOnly
        /\ heading_analysis[c].h3_count = 1
        /\ heading_analysis[c].h2_count = 0
        /\ heading_analysis[c].recommendations =
               <<Rec("Add an H1 heading (main title) to your content."), H3WithoutH2>>

(* An H4 without an H3 next to an H3-less H2 and a second H1.              *)
C10_WitnessH4 ==
    \E c \in Calls :
        /\ Analyzed(c)
        /\ heading_analysis[c].h4_count > 0
        /\ heading_analysis[c].h3_count = 0
        /\ heading_analysis[c].h1_count > 1
        /\ H4WithoutH3 \in {heading_analysis[c].recommendations[i] :
                               i \in 1..Len(heading_analysis[c].recommendations)}

HeadingRuleMessages(h1, h2, h3, h4, length) ==
    {Rec("Add an H1 heading (main title) to your content.") : x \in {y \in {1} : h1 = 0}}
    \cup {Rec("Use only one H1 heading per page for proper SEO.") : x \in {y \in {1} : h1 > 1}}
    \cup {Rec("Break content into sections using H2 headings.") :
              x \in {y \in {1} : h2 = 0 /\ length > 300}}
    \cup {Rec("Consider using H3 headings for subsections within major sections.") :
              x \in {y \in {1} : h2 > 0 /\ h3 = 0 /\ length > 1000}}
    \cup {Rec("Consider consolidating some sections - too many H2 headings can dilute focus.") :
              x \in {y \in {1} : h2 > 7}}
    \cup {H3WithoutH2 : x \in {y \in {1} : h3 > 0 /\ h2 = 0}}
    \cup {H4WithoutH3 : x \in {y \in {1} : h4 > 0 /\ h3 = 0}}

Consolidate ==
    Rec("Consider consolidating some sections - too many H2 headings can dilute focus.")

Affirmative == Rec("Maintain consistent heading hierarchy for future content.")

(* C11: the heading recommendations are exactly the messages of the rules  *)
(* whose condition holds, each rule taken on its own, without repetition;  *)
(* the consolidate message is there exactly when h2_count > 7; and the     *)
(* list is the single affirmative message exactly when no rule fired, so   *)
(* it is never empty.                                                      *)
C11_HeadingRulesIndependent ==
    \A c \in Calls :
        Analyzed(c) =>
            LET h     == heading_analysis[c]
                recs  == {h.recommendations[i] : i \in 1..Len(h.recommendations)}
                fired == HeadingRuleMessages(h.h1_count, h.h2_count, h.h3_count,
                                             h.h4_count, Len(ContentOf(c)))
            IN  /\ Len(h.recommendations) = Cardinality(recs)
                /\ Len(h.recommendations) > 0
                /\ fired # {} => recs = fired
                /\ fired = {} <=> h.recommendations = <<Affirmative>>
                /\ Consolidate \in recs <=> h.h2_count > 7
                /\ ContentOf(c) = DocSevenH2 => (h.h2_count = 7 /\ Consolidate \notin recs)
                /\ ContentOf(c) = DocEightH2 => (h.h2_count = 8 /\ Consolidate \in recs)

C11_Witness ==
    \E c \in Calls :
        /\ Analyzed(c)
        /\ ContentOf(c) = DocEightH2
        /\ heading_analysis[c].h2_count = 8
        /\ heading_analysis[c].recommendations =
               <<Rec("Add an H1 heading (main title) to your content."), Consolidate>>

(* An H1 heading line, a blank line, and one body paragraph of at least 30 *)
(* words that runs to the end of the text.                                 *)
HeadingThenBody(s) ==
    /\ Len(s) > 4
    /\ s[1] = "#"
    /\ s[2] = " "
    /\ \E p \in 3..(Len(s) - 2) :
          /\ s[p] = "\n"
          /\ s[p+1] = "\n"
          /\ \A i \in 3..(p - 1) : s[i] # "\n"
          /\ ~IsSpace(s[p-1])
          /\ \A i \in (p + 2)..Len(s) : s[i] # "\n"
          /\ WordCountOf(SubSeq(s, p + 2, Len(s))) >= 30

(* C12: for an H1 heading line, a blank line and a body paragraph of at    *)
(* least 30 words that is also the last paragraph, the completeness        *)
(* assessment has has_intro and has_conclusion both true.                  *)
C12_HeadingThenBodyIntro ==
    \A c \in Calls :
        (Analyzed(c) /\ HeadingThenBody(ContentOf(c))) =>
            (completeness[c].has_intro /\ completeness[c].has_conclusion)

Scored(c) == pc[c] = "format" \/ Reported(c)

(* The lower-cased text holds one of the six call-to-action phrases.       *)
HoldsCtaPhrase(s) ==
    \E phrase \in {<<"l","e","a","r","n"," ","m","o","r","e">>,
                   <<"s","i","g","n"," ","u","p">>,
                   <<"g","e","t"," ","s","t","a","r","t","e","d">>,
                   <<"c","o","n","t","a","c","t"," ","u","s">>,
                   <<"c","a","l","l"," ","n","o","w">>,
                   <<"s","u","b","s","c","r","i","b","e">>} :
        \E p \in 1..(Len(s) - Len(phrase) + 1) :
            \A j \in 1..Len(phrase) : LowerChar(s[p + j - 1]) = phrase[j]

CtaRecommendation ==
    Rec("Add a clear call-to-action (CTA) to guide readers on next steps.")

(* C13: has_cta is true exactly when the lower-cased content holds one of  *)
(* the six call-to-action phrases; when none is there the completeness     *)
(* recommendations hold the add-a-CTA message and the completeness         *)
(* component of the score is without the 2 points of the CTA.              *)
C13_CallToAction ==
    \A c \in Calls :
        Analyzed(c) =>
            LET m    == completeness[c]
                recs == {m.recommendations[i] : i \in 1..Len(m.recommendations)}
                rest == (IF m.word_count >= input_dict[c].min_word_count.v THEN 10 ELSE 0)
                        + (IF m.has_intro THEN 5 ELSE 0)
                        + (IF m.has_conclusion THEN 5 ELSE 0)
                        + (IF m.has_bullet_points THEN 3 ELSE 0)
            IN  /\ m.has_cta <=> HoldsCtaPhrase(ContentOf(c))
                /\ CtaRecommendation \in recs <=> ~HoldsCtaPhrase(ContentOf(c))
                /\ Scored(c) =>
                      score_components[c][4] =
                          rest + (IF HoldsCtaPhrase(ContentOf(c)) THEN 2 ELSE 0)

(* A report on a content that misses a phrase by one space.                *)
C13_Witness ==
    \E c \in Calls :
        /\ Reported(c)
        /\ ~HoldsCtaPhrase(ContentOf(c))
        /\ ContentOf(c) = <<"s","i","g","n","u","p">>
        /\ ~completeness[c].has_cta
        /\ score_components[c][4] = 10

(* The distinct recommendation strings of the four sub-assessments.        *)
Produced(c) ==
    {readability[c].recommendations[i] : i \in 1..Len(readability[c].recommendations)}
    \cup {heading_analysis[c].recommendations[i] :
             i \in 1..Len(heading_analysis[c].recommendations)}
    \cup {keyword_analysis[c].recommendations[i] :
             i \in 1..Len(keyword_analysis[c].recommendations)}
    \cup {completeness[c].recommendations[i] : i \in 1..Len(completeness[c].recommendations)}

(* C14: with U distinct recommendation strings from the four               *)
(* sub-assessments, Top Recommendations lists min(10, U) items, none of    *)
(* them twice, each one produced by a sub-assessment, and the "plus N      *)
(* more" trailer is there exactly when U > 10, with N = U - 10.            *)
C14_TopRecommendations ==
    \A c \in Calls :
        Reported(c) =>
            LET top == Section(ret[c], "Top Recommendations")
                U   == Cardinality(Produced(c))
            IN  /\ Len(top.items) = IF U < 10 THEN U ELSE 10
                /\ \A i, j \in 1..Len(top.items) : top.items[i] = top.items[j] => i = j
                /\ \A i \in 1..Len(top.items) : top.items[i] \in Produced(c)
                /\ top.more = IF U > 10 THEN <<U - 10>> ELSE <<>>

(* Twelve distinct recommendations: ten listed, two more announced.        *)
C14_Witness ==
    \E c \in Calls :
        /\ Reported(c)
        /\ Cardinality(Produced(c)) = 12
        /\ Len(Section(ret[c], "Top Recommendations").items) = 10
        /\ Section(ret[c], "Top Recommendations").more = <<2>>

(* What _run returns for a request when its body runs from the first line  *)
(* to a return with nothing else running, in a run with the given seed.    *)
RunAlone(request, seed) ==
    IF ~request.json THEN JSONDecodeErrorHandler
    ELSE IF request.value.t # "dict" THEN ExceptionHandler("AttributeError")
    ELSE
      LET content  == Get(request.value.v, "content", PyStr(<<>>))
          keywords == Get(request.value.v, "target_keywords", PyList(<<>>))
          minimum  == Get(request.value.v, "min_word_count", PyInt(DefaultMinWordCount))
      IN  IF NoContent(content)
          THEN ErrorString("Error: No content provided for analysis.")
          ELSE IF NoKeywords(keywords)
          THEN ErrorString("Error: No target keywords provided for analysis.")
          ELSE IF content.t # "str" THEN ExceptionHandler("TypeError")
          ELSE IF ~Iterable(keywords) THEN ExceptionHandler("TypeError")
          ELSE IF \E i \in 1..Len(Items(keywords)) : Items(keywords)[i].t # "str"
          THEN ExceptionHandler("AttributeError")
          ELSE IF minimum.t # "int" THEN ExceptionHandler("TypeError")
          ELSE
            LET strings == [i \in 1..Len(Items(keywords)) |-> Items(keywords)[i].v]
                r == _analyze_readability(content.v)
                h == _analyze_headings(content.v)
                k == _check_keyword_usage(content.v, strings)
                m == _analyze_content_completeness(content.v, minimum.v)
                total == ReadabilityScore(r.score) + HeadingScore(h)
                         + KeywordScore(k, Len(strings))
                         + CompletenessScore(m, minimum.v)
                recs == r.recommendations \o h.recommendations
                        \o k.recommendations \o m.recommendations
            IN  [kind |-> "report", text |-> "", exc |-> "",
                 sections |-> Report(total, r, h, k, m, Len(strings), minimum.v,
                                     SetOrder(recs, seed))]

(* A step of one invocation leaves every other invocation's variables and  *)
(* the run's seed as they are.                                             *)
StepIsLocal ==
    \A c \in Calls :
        pc'[c] # pc[c] =>
            /\ hashseed' = hashseed
            /\ proc' = proc
            /\ \A d \in Calls \ {c} :
                  /\ pc'[d] = pc[d]
                  /\ tool_input'[d] = tool_input[d]
                  /\ input_dict'[d] = input_dict[d]
                  /\ readability'[d] = readability[d]
                  /\ heading_analysis'[d] = heading_analysis[d]
                  /\ keyword_analysis'[d] = keyword_analysis[d]
                  /\ completeness'[d] = completeness[d]
                  /\ score_components'[d] = score_components[d]
                  /\ total_score'[d] = total_score[d]
                  /\ all_recommendations'[d] = all_recommendations[d]
                  /\ ret'[d] = ret[d]

(* C15: invocations on one instance may interleave their steps in any      *)
(* order: a step of one invocation touches no variable of another, and     *)
(* every invocation returns what it returns when run alone.                *)
C15_ConcurrentCallsIndependent ==
    /\ [](\A c \in Calls :
             pc[c] = "done" => ret[c] = RunAlone(tool_input[c], hashseed[proc[c]]))
    /\ [][StepIsLocal]_vars

(* One invocation has returned its report while another, with another      *)
(* argument, is between its scoring and its report.                        *)
C15_Witness ==
    \E c, d \in Calls :
        /\ c # d
        /\ tool_input[c] # tool_input[d]
        /\ Reported(c)
        /\ pc[d] = "format"
        /\ ret[c] = RunAlone(tool_input[c], hashseed[proc[c]])

BandOf(score) ==
    CASE score >= 90 -> "Excellent!"
      [] score >= 70 /\ score < 90 -> "Good."
      [] score >= 50 /\ score < 70 -> "Moderate."
      [] score < 50 -> "Needs Work."

(* C16: the band printed with the score is Excellent from 90, Good from 70 *)
(* to 89, Moderate from 50 to 69 and Needs Work below 50, and a report     *)
(* carries exactly one band.                                               *)
C16_ScoreBand ==
    /\ \A score \in 0..100 : ScoreBand(score) = BandOf(score)
    /\ \A c \in Calls :
          Reported(c) =>
              LET overall == Section(ret[c], "Overall SEO Score")
              IN  /\ overall.band = BandOf(overall.total_score)
                  /\ Cardinality({i \in 1..Len(ret[c].sections) :
                                     "band" \in DOMAIN ret[c].sections[i]}) = 1

(* A report at the lower edge of Good.                                     *)
C16_Witness ==
    \E c \in Calls :
        /\ Reported(c)
        /\ Section(ret[c], "Overall SEO Score").total_score = 70
        /\ Section(ret[c], "Overall SEO Score").band = "Good."

(* The target keywords of a request whose fields have the types of the     *)
(* input schema.                                                           *)
KeywordsOf(c) ==
    [i \in 1..Len(tool_input[c].value.v.target_keywords.v) |->
        tool_input[c].value.v.target_keywords.v[i].v]

(* C17: the keyword report holds one assessment for each entry of          *)
(* target_keywords, in input order, so the Keyword Analysis table has as   *)
(* many rows as the Target Keywords count of the Content Overview.         *)
C17_OneRowPerKeyword ==
    \A c \in Calls :
        (Reported(c) /\ WellTyped(c)) =>
            LET rows == Section(ret[c], "Keyword Analysis").rows
            IN  /\ [i \in 1..Len(rows) |-> rows[i].keyword] = KeywordsOf(c)
                /\ Len(rows) = Section(ret[c], "Content Overview").target_keywords

(* The label _check_keyword_usage gave the keyword.                        *)
LabelGiven(c, keyword) ==
    LET rows == keyword_analysis[c].keywords
    IN  rows[CHOOSE i \in 1..Len(rows) : rows[i].keyword = keyword].assessment

OptimalEntries(c) ==
    Cardinality({i \in 1..Len(KeywordsOf(c)) : LabelGiven(c, KeywordsOf(c)[i]) = "Optimal"})

(* C18: the keyword component of the score is optimal * 25 / total,        *)
(* truncated, with total the number of entries of target_keywords and      *)
(* optimal the number of entries labelled Optimal; so it is 25 exactly     *)
(* when every entry is Optimal, and 0 when none is.                        *)
C18_KeywordComponent ==
    \A c \in Calls :
        (Scored(c) /\ WellTyped(c)) =>
            LET total   == Len(KeywordsOf(c))
                optimal == OptimalEntries(c)
            IN  /\ score_components[c][3] = (optimal * 25) \div total
                /\ score_components[c][3] = 25 <=> optimal = total
                /\ optimal = 0 => score_components[c][3] = 0

MissingEntries(c) ==
    Cardinality({i \in 1..Len(KeywordsOf(c)) : LabelGiven(c, KeywordsOf(c)[i]) = "Missing"})

(* C19: the overall keyword summary is "no target keywords found" when     *)
(* every keyword of the list is Missing, else "all keywords optimal" when  *)
(* every keyword of the list is Optimal, else "N of total keywords used    *)
(* optimally" with N the number of Optimal keywords and total the length   *)
(* of the list.                                                            *)
C19_OverallSummary ==
    \A c \in Calls :
        (Analyzed(c) /\ WellTyped(c)) =>
            LET total == Len(KeywordsOf(c))
            IN  keyword_analysis[c].overall_assessment =
                    IF MissingEntries(c) = total
                    THEN NumRec("No target keywords found in content.", 0, 0)
                    ELSE IF OptimalEntries(c) = total
                    THEN NumRec("All keywords are used optimally.", 0, 0)
                    ELSE NumRec("{optimal_count} of {len(target_keywords)} keywords used optimally.",
                                OptimalEntries(c), total)

(* C20: the total is the sum of four components, each a function of its    *)
(* own sub-assessment alone: readability 25 for Good, 15 for Moderate, 5   *)
(* for Difficult or Invalid; headings 10 for exactly one H1, 10 for an H2, *)
(* 5 for an H3; the keyword component; completeness 10 for the word count  *)
(* reaching min_word_count, 5 for the intro, 5 for the conclusion, 3 for   *)
(* bullet points and 2 for the call to action.                             *)
C20_CompositeScore ==
    \A c \in Calls :
        Scored(c) =>
            LET r == readability[c]
                h == heading_analysis[c]
                m == completeness[c]
                s == score_components[c]
            IN  /\ Len(s) = 4
                /\ s[1] = CASE r.score = "Good" -> 25
                            [] r.score = "Moderate" -> 15
                            [] r.score \in {"Difficult", "Invalid"} -> 5
                /\ s[2] = (IF h.h1_count = 1 THEN 10 ELSE 0)
                          + (IF h.h2_count > 0 THEN 10 ELSE 0)
                          + (IF h.h3_count > 0 THEN 5 ELSE 0)
                /\ s[3] \in 0..25
                /\ s[4] = (IF m.word_count >= input_dict[c].min_word_count.v THEN 10 ELSE 0)
                          + (IF m.has_intro THEN 5 ELSE 0)
                          + (IF m.has_conclusion THEN 5 ELSE 0)
                          + (IF m.has_bullet_points THEN 3 ELSE 0)
                          + (IF m.has_cta THEN 2 ELSE 0)
                /\ total_score[c] = s[1] + s[2] + s[3] + s[4]
                /\ Reported(c) =>
                      Section(ret[c], "Overall SEO Score").total_score = total_score[c]

(* A Difficult text with an intro but short of min_word_count.             *)
C20_Witness ==
    \E c \in Calls :
        /\ Reported(c)
        /\ readability[c].score = "Difficult"
        /\ completeness[c].has_intro
        /\ completeness[c].word_count < input_dict[c].min_word_count.v
        /\ score_components[c][1] = 5
        /\ score_components[c][4] = 10

(* The non-empty sentences of a text: the segments between runs of '.',    *)
(* '!' and '?' that hold more than whitespace, counted by the first such   *)
(* character of each.                                                      *)
SentenceCountOf(s) ==
    Cardinality({i \in 1..Len(s) :
        /\ ~IsSpace(s[i])
        /\ s[i] \notin {".", "!", "?"}
        /\ \A j \in 1..(i - 1) :
              (\A k \in (j + 1)..(i - 1) : IsSpace(s[k]))
                  => (IsSpace(s[j]) \/ s[j] \in {".", "!", "?"})})

(* C21: with W words and S non-empty sentences the readability label is    *)
(* Invalid exactly when W = 0 or S = 0, and otherwise Difficult for        *)
(* W/S > 25, Moderate for 20 < W/S <= 25 and Good for W/S <= 20.           *)
C21_ReadabilityLabel ==
    \A c \in Calls :
        Analyzed(c) =>
            LET W == WordCountOf(ContentOf(c))
                S == SentenceCountOf(ContentOf(c))
            IN  readability[c].score =
                    IF W = 0 \/ S = 0 THEN "Invalid"
                    ELSE IF W > 25 * S THEN "Difficult"
                    ELSE IF W > 20 * S THEN "Moderate"
                    ELSE "Good"

(* One sentence of exactly 25 words.                                       *)
C21_Witness ==
    \E c \in Calls :
        /\ Analyzed(c)
        /\ WordCountOf(ContentOf(c)) = 25
        /\ SentenceCountOf(ContentOf(c)) = 1
        /\ readability[c].score = "Moderate"

AddLists == Rec("Add bullet points or lists to break up long text sections.")

(* C22: the completeness recommendations are, in this order, those whose   *)
(* condition holds: the length message with target and current count when  *)
(* word_count < min_word_count, add-intro without intro, add-conclusion    *)
(* without conclusion, add-lists without bullet points above 500 words,    *)
(* add-CTA without call to action; and the 10 length points are awarded    *)
(* exactly when the length message is absent.                              *)
C22_CompletenessRecommendations ==
    \A c \in Calls :
        Analyzed(c) =>
            LET m       == completeness[c]
                minimum == input_dict[c].min_word_count.v
                W       == WordCountOf(ContentOf(c))
                length  == NumRec("Increase content length to at least {min_word_count} words (currently {word_count}).",
                                  minimum, W)
                others  == (IF m.has_intro THEN 5 ELSE 0)
                           + (IF m.has_conclusion THEN 5 ELSE 0)
                           + (IF m.has_bullet_points THEN 3 ELSE 0)
                           + (IF m.has_cta THEN 2 ELSE 0)
            IN  /\ m.word_count = W
                /\ m.recommendations =
                      (IF W < minimum THEN <<length>> ELSE <<>>)
                      \o (IF ~m.has_intro
                          THEN <<Rec("Add a proper introduction section (at least 30 words).")>>
                          ELSE <<>>)
                      \o (IF ~m.has_conclusion
                          THEN <<Rec("Add a proper conclusion section (at least 30 words).")>>
                          ELSE <<>>)
                      \o (IF ~m.has_bullet_points /\ W > 500 THEN <<AddLists>> ELSE <<>>)
                      \o (IF ~m.has_cta THEN <<CtaRecommendation>> ELSE <<>>)
                /\ W <= 500 =>
                      AddLists \notin {m.recommendations[i] : i \in 1..Len(m.recommendations)}
                /\ Scored(c) =>
                      (score_components[c][4] = others + 10
                          <=> length \notin {m.recommendations[i] :
                                                i \in 1..Len(m.recommendations)})

(* 501 words without a list marker.                                        *)
C22_Witness ==
    \E c \in Calls :
        /\ Analyzed(c)
        /\ WordCountOf(ContentOf(c)) = 501
        /\ completeness[c].recommendations = <<AddLists, CtaRecommendation>>

(* A line that starts with exactly k '#', a space, and text.               *)
HeadingLineAt(s, i, k) ==
    /\ i = 1 \/ s[i-1] = "\n"
    /\ i + k + 1 <= Len(s)
    /\ \A j \in i..(i + k - 1) : s[j] = "#"
    /\ s[i+k] = " "
    /\ ~IsSpace(s[i+k+1])

(* A heading of level k with no heading of level k - 1 on a line before.   *)
UsedBeforeParent(s, k) ==
    \E i \in 1..Len(s) :
        /\ HeadingLineAt(s, i, k)
        /\ \A j \in 1..(i - 1) : ~HeadingLineAt(s, j, k - 1)

(* C23: an H3 heading with no H2 heading earlier in the content yields the *)
(* hierarchy-violation recommendation, and so does an H4 with no H3        *)
(* earlier, even when the missing level appears later in the content.      *)
C23_ViolationByOrder ==
    \A c \in Calls :
        Analyzed(c) =>
            LET h    == heading_analysis[c]
                recs == {h.recommendations[i] : i \in 1..Len(h.recommendations)}
            IN  /\ UsedBeforeParent(ContentOf(c), 3) => H3WithoutH2 \in recs
                /\ UsedBeforeParent(ContentOf(c), 4) => H4WithoutH3 \in recs

(* A line that begins with exactly k '#', then whitespace, then at least   *)
(* one more character before the line ends.                                *)
HeadingLine(s, i, k) ==
    /\ i = 1 \/ s[i-1] = "\n"
    /\ i + k + 1 <= Len(s)
    /\ \A j \in i..(i + k - 1) : s[j] = "#"
    /\ IsSpace(s[i+k])
    /\ s[i+k] # "\n"
    /\ s[i+k+1] # "\n"

HeadingLines(s, k) == Cardinality({i \in 1..Len(s) : HeadingLine(s, i, k)})

(* C24: h1_count to h4_count are the numbers of lines that begin with      *)
(* exactly 1 to 4 '#', whitespace and text on the same line; a line with   *)
(* five '#' or more, or a marker with nothing after it on its line, is no  *)
(* heading.                                                                *)
C24_HeadingLines ==
    \A c \in Calls :
        Analyzed(c) =>
            /\ heading_analysis[c].h1_count = HeadingLines(ContentOf(c), 1)
            /\ heading_analysis[c].h2_count = HeadingLines(ContentOf(c), 2)
            /\ heading_analysis[c].h3_count = HeadingLines(ContentOf(c), 3)
            /\ heading_analysis[c].h4_count = HeadingLines(ContentOf(c), 4)

(* C25: whenever _run produces a report the readability component is at    *)
(* least 5, and so is total_score: no report shows the score 0.            *)
C25_ScoreAtLeastFive ==
    \A c \in Calls :
        Reported(c) =>
            /\ score_components[c][1] >= 5
            /\ total_score[c] >= 5
            /\ Section(ret[c], "Overall SEO Score").total_score >= 5

(* The lowest report: nothing but the 5 points of readability.             *)
C25_Witness ==
    \E c \in Calls :
        /\ Reported(c)
        /\ score_components[c] = <<5, 0, 0, 0>>
        /\ Section(ret[c], "Overall SEO Score").total_score = 5

(* C26: in every keyword assessment the occurrence count is 0 exactly when *)
(* the whole-word matches behind the density are 0, so the keyword is      *)
(* labelled Missing exactly when its density is 0.                         *)
C26_CountAndDensityAgree ==
    \A c \in Calls :
        Analyzed(c) =>
            \A i \in 1..Len(keyword_analysis[c].keywords) :
                LET row == keyword_analysis[c].keywords[i]
                IN  /\ row.count = 0 <=>
                           findall_word(lower(ContentOf(c)), lower(row.keyword)) = 0
                    /\ row.assessment = "Missing" <=> row.density.num = 0

(* C27: a keyword is labelled Optimal only if its occurrence count is at   *)
(* least 2 and the content has at least 40 words; so for a content of      *)
(* fewer than 40 words no keyword is Optimal and the keyword component of  *)
(* the score is 0.                                                         *)
C27_OptimalNeedsFortyWords ==
    \A c \in Calls :
        /\ Analyzed(c) =>
               \A i \in 1..Len(keyword_analysis[c].keywords) :
                   keyword_analysis[c].keywords[i].assessment = "Optimal" =>
                       /\ keyword_analysis[c].keywords[i].count >= 2
                       /\ WordCountOf(ContentOf(c)) >= 40
        /\ (Scored(c) /\ WordCountOf(ContentOf(c)) < 40) => score_components[c][3] = 0

(* A content of exactly 40 words with a keyword labelled Optimal, and the  *)
(* keyword component of the score above 0.                                 *)
C27_Witness ==
    \E c \in Calls :
        /\ Scored(c)
        /\ WordCountOf(ContentOf(c)) = 40
        /\ \E i \in 1..Len(keyword_analysis[c].keywords) :
               keyword_analysis[c].keywords[i].assessment = "Optimal"
        /\ score_components[c][3] > 0

(* C28: whenever the heading recommendations hold the affirmative message, *)
(* h1_count is exactly 1, h2_count is at most 7 and neither hierarchy      *)
(* violation holds (no H3 without an H2, no H4 without an H3); so the      *)
(* heading component of the score is at least 10 then.                     *)
C28_AffirmativeHeadings ==
    \A c \in Calls :
        LET h == heading_analysis[c]
        IN  /\ (Analyzed(c) /\ \E i \in 1..Len(h.recommendations) :
                                   h.recommendations[i] = Affirmative) =>
                   /\ h.h1_count = 1
                   /\ h.h2_count <= 7
                   /\ ~(h.h3_count > 0 /\ h.h2_count = 0)
                   /\ ~(h.h4_count > 0 /\ h.h3_count = 0)
            /\ (Scored(c) /\ \E i \in 1..Len(h.recommendations) :
                                 h.recommendations[i] = Affirmative) =>
                   score_components[c][2] >= 10

(* The affirmative message for a content of one H1 and nothing else, with  *)
(* a heading component of exactly 10.                                      *)
C28_Witness ==
    \E c \in Calls :
        /\ Scored(c)
        /\ heading_analysis[c].recommendations = <<Affirmative>>
        /\ heading_analysis[c].h1_count = 1
        /\ heading_analysis[c].h2_count = 0
        /\ score_components[c][2] = 10

(* C29: two invocations with the same content and min_word_count whose     *)
(* target_keywords are permutations of each other yield the same           *)
(* total_score, the same four component scores, the same overall keyword   *)
(* summary and the same label for every keyword.                           *)
C29_KeywordOrderIrrelevant ==
    \A c, d \in Calls :
        (/\ Reported(c)
         /\ Reported(d)
         /\ ContentOf(c) = ContentOf(d)
         /\ input_dict[c].min_word_count = input_dict[d].min_word_count
         /\ IsPermutation(KeywordsOf(c), KeywordsOf(d)))
        => /\ total_score[c] = total_score[d]
           /\ score_components[c] = score_components[d]
           /\ Section(ret[c], "Overall SEO Score").total_score
                  = Section(ret[d], "Overall SEO Score").total_score
           /\ keyword_analysis[c].overall_assessment = keyword_analysis[d].overall_assessment
           /\ \A i \in 1..Len(KeywordsOf(c)) :
                  LabelGiven(c, KeywordsOf(c)[i]) = LabelGiven(d, KeywordsOf(c)[i])

(* Both reports are there for two keyword lists in different order, one    *)
(* keyword labelled Optimal and the other not.                             *)
C29_Witness ==
    \E c, d \in Calls :
        /\ Reported(c)
        /\ Reported(d)
        /\ ContentOf(c) = ContentOf(d)
        /\ KeywordsOf(c) # KeywordsOf(d)
        /\ IsPermutation(KeywordsOf(c), KeywordsOf(d))
        /\ LabelGiven(c, KeywordsOf(c)[1]) = "Optimal"
        /\ LabelGiven(d, KeywordsOf(d)[1]) # "Optimal"
        /\ score_components[c][3] = score_components[d][3]
        /\ score_components[c][3] > 0

(* C30: in every report the readability assessment and the heading         *)
(* assessment each contribute at least one recommendation, no              *)
(* recommendation of the one is a recommendation of the other, and so Top  *)
(* Recommendations lists at least two items, also for a score of 100.      *)
C30_AtLeastTwoRecommendations ==
    \A c \in Calls :
        Reported(c) =>
            LET r   == readability[c].recommendations
                h   == heading_analysis[c].recommendations
                top == Section(ret[c], "Top Recommendations")
            IN  /\ Len(r) >= 1
                /\ Len(h) >= 1
                /\ {r[i] : i \in 1..Len(r)} \cap {h[i] : i \in 1..Len(h)} = {}
                /\ Len(top.items) >= 2

(* A report with the score 100 whose Top Recommendations are the two       *)
(* affirmative messages and nothing else.                                  *)
C30_Witness ==
    \E c \in Calls :
        /\ Reported(c)
        /\ total_score[c] = 100
        /\ heading_analysis[c].recommendations = <<Affirmative>>
        /\ readability[c].recommendations =
               <<Rec("Maintain this level of clarity throughout all content.")>>
        /\ Len(Section(ret[c], "Top Recommendations").items) = 2

====
